---- MODULE Spec2Model ----
(***************************************************************************)
(* Model of the siatest TestNode renter helpers (package siatest):         *)
(* DownloadInfo, Files, FileInfo, Upload, UploadNewFile,                   *)
(* UploadNewFileBlocking, WaitForDownload, WaitForUploadProgress and       *)
(* WaitForUploadRedundancy, together with the Retry helper they poll       *)
(* through and the renter service they observe.                            *)
(*                                                                         *)
(* The renter (tracked files, download records) is an external service:    *)
(* every client call (RenterFilesGet, RenterDownloadsGet, RenterUploadPost)*)
(* is one atomic request that may fail, and between two requests of the    *)
(* harness the service may change its state arbitrarily.                   *)
(*                                                                         *)
(* Representation:                                                         *)
(*   - a Go error is a sequence of messages, outermost context first;      *)
(*     the nil error is the empty sequence;                                *)
(*   - a sia path or local path is a sequence of path tokens, so that      *)
(*     "/"+name and name are different values;                             *)
(*   - float64 progress and redundancy values are counted in units of      *)
(*     1/Scale; a float64 target is the exact fraction <<num, den>>.       *)
(***************************************************************************)
EXTENDS Integers, Sequences, FiniteSets, TLC

VARIABLES
    files,      \* renter: the tracked files, as RenterFilesGet lists them
    downloads,  \* renter: the download records, as RenterDownloadsGet lists them
    op,         \* harness: the exported function that was called ("idle": none)
    pc,         \* harness: <<function, label>>, the position inside the call
    arg,        \* harness: the arguments and locals of the call
    tries,      \* Retry: number of invocations of fn so far
    sleeps,     \* Retry: number of time.Sleep calls so far
    err,        \* Retry: the error the latest invocation of fn returned
    res,        \* harness: the values the call returned (pc = <<op, "done">>)
    log         \* history: one entry per phase of the call, with what its
                \* latest request really observed

vars == <<files, downloads, op, pc, arg, tries, sleeps, err, res, log>>

----------------------------------------------------------------------------
(* Bounds of the model *)

\* Stand-in for the 1000 attempts every wait passes to Retry.
MaxAttempts == 3
\* Longest list of download records the renter reports.
MaxDownloads == 2

\* Denominator of the progress and redundancy units (values in halves).
Scale == 2

Names == {"f1", "f2"}
Checksums == {"h1", "h2"}
ProgressVals == {0, Scale}                             \* 0.0 and 1.0
RedundancyVals == {0, (3 * Scale) \div 2, 2 * Scale}   \* 0.0, 1.5, 2.0
ByteVals == {5, 10}
Max(S) == CHOOSE x \in S : \A y \in S : y <= x
Pieces == {<<2, 1>>, <<2, 2>>}             \* <<dataPieces, parityPieces>>

SiaTestingDir == "siatest"
SiaPaths == {<<n>> : n \in Names}
LocalPaths == {<<SiaTestingDir, n>> : n \in Names}

\* The files the test under observation works with; the other names belong
\* to other users of the same renter.
LocalFiles == [path : {<<SiaTestingDir, "f1">>}, checksum : Checksums]
RemoteFiles == [siaPath : {<<"f1">>}, checksum : Checksums]
NilLocalFile == [path |-> <<>>, checksum |-> ""]
NilRemoteFile == [siaPath |-> <<>>, checksum |-> ""]

----------------------------------------------------------------------------
(* Errors *)

Nil == <<>>
NoTarget == <<0, 1>>

\* errors.New(s)
New(s) == << [text |-> s, want |-> NoTarget, was |-> -1] >>

\* fmt.Errorf("... should be %v but was %v", want, was)
Errorf(s, want, was) == << [text |-> s, want |-> want, was |-> was] >>

\* errors.AddContext(e, s) of github.com/NebulousLabs/errors: a nil error
\* stays nil, any other error is extended with the context s.
AddContext(e, s) == IF e = Nil THEN Nil ELSE New(s) \o e

\* The error of a client request that failed.
TransportErr == New("request failed")

\* v/Scale < t[1]/t[2], the float64 comparison value < target
Less(v, t) == v * t[2] < t[1] * Scale

----------------------------------------------------------------------------
(* The renter's tracked files: Files, FileInfo *)

ZeroFileInfo == [SiaPath |-> <<>>, Filesize |-> 0, UploadProgress |-> 0,
                 Redundancy |-> 0]
FileInfos == [SiaPath : SiaPaths, Filesize : {Max(ByteVals)},
              UploadProgress : ProgressVals, Redundancy : RedundancyVals]

\* tn.RenterFilesGet(): GET /renter/files, which fails or lists the files
RenterFilesGet(ok) ==
    IF ok THEN [Files |-> files, err |-> Nil]
          ELSE [Files |-> <<>>, err |-> TransportErr]

\* func (tn *TestNode) Files() ([]modules.FileInfo, error)
Files(ok) ==
    LET rf == RenterFilesGet(ok)
    IN  IF rf.err # Nil THEN [files |-> <<>>, err |-> rf.err]
                        ELSE [files |-> rf.Files, err |-> rf.err]

\* the loop of FileInfo: index of the first file with the sia path, 0 if none
RECURSIVE FileInfoScan(_, _, _)
FileInfoScan(fs, i, siaPath) ==
    IF i > Len(fs) THEN 0
    ELSE IF fs[i].SiaPath = siaPath THEN i
    ELSE FileInfoScan(fs, i + 1, siaPath)

\* func (tn *TestNode) FileInfo(rf *RemoteFile) (modules.FileInfo, error)
FileInfo(rf, ok) ==
    LET r == Files(ok)
        i == FileInfoScan(r.files, 1, rf.siaPath)
    IN  IF r.err # Nil THEN [file |-> ZeroFileInfo, err |-> r.err]
        ELSE IF i # 0 THEN [file |-> r.files[i], err |-> Nil]
        ELSE [file |-> ZeroFileInfo,
              err |-> New("file is not tracked by the renter")]

\* What a files request really observes of sia path p (history only).
Tracked(p) == \E i \in DOMAIN files : files[i].SiaPath = p
TrackedAt(p) == CHOOSE i \in DOMAIN files :
                    /\ files[i].SiaPath = p
                    /\ \A j \in 1..(i - 1) : files[j].SiaPath # p

----------------------------------------------------------------------------
(* The renter's download records: DownloadInfo *)

NilDownloadInfo == [SiaPath |-> <<>>, Destination |-> <<>>, Length |-> 0,
                    Filesize |-> 0, Received |-> 0, TotalDataTransferred |-> 0,
                    Completed |-> FALSE]
DownloadInfos == [SiaPath : SiaPaths, Destination : LocalPaths,
                  Length : {Max(ByteVals)}, Filesize : ByteVals,
                  Received : ByteVals, TotalDataTransferred : ByteVals,
                  Completed : BOOLEAN]

\* tn.RenterDownloadsGet(): GET /renter/downloads, which fails or lists the
\* download records
RenterDownloadsGet(ok) ==
    IF ok THEN [Downloads |-> downloads, err |-> Nil]
          ELSE [Downloads |-> <<>>, err |-> TransportErr]

\* Mutant of DownloadInfoScan: the destination is not compared.
RECURSIVE DownloadInfoScanBySiaPath(_, _, _, _)
DownloadInfoScanBySiaPath(ds, i, lf, rf) ==
    IF i > Len(ds) THEN 0
    ELSE IF rf.siaPath = ds[i].SiaPath THEN i
    ELSE DownloadInfoScanBySiaPath(ds, i + 1, lf, rf)

\* the loop of DownloadInfo: index of the first record with the sia path of
\* rf and the destination of lf, 0 if none
RECURSIVE DownloadInfoScan(_, _, _, _)
DownloadInfoScan(ds, i, lf, rf) ==
    IF i > Len(ds) THEN 0
    ELSE IF rf.siaPath = ds[i].SiaPath /\ lf.path = ds[i].Destination THEN i
    ELSE DownloadInfoScan(ds, i + 1, lf, rf)

\* the sanity checks of DownloadInfo on the record found, e being the value
\* of err before them
DownloadInfoChecks(di, e) ==
    LET e1 == IF di.Length # di.Filesize
              THEN AddContext(e, "filesize != length") ELSE e
        e2 == IF di.Received > di.TotalDataTransferred
              THEN AddContext(e1, "received > TotalDataTransfered") ELSE e1
    IN  IF di.Completed /\ di.Received # di.Length
        THEN AddContext(e2, "completed == true but received != length") ELSE e2

\* func (tn *TestNode) DownloadInfo(lf *LocalFile, rf *RemoteFile)
\*     (*api.DownloadInfo, error)
DownloadInfo(lf, rf, ok) ==
    LET rdq == RenterDownloadsGet(ok)
        i   == DownloadInfoScan(rdq.Downloads, 1, lf, rf)
    IN  IF rdq.err # Nil THEN [di |-> NilDownloadInfo, err |-> rdq.err]
        ELSE IF i = 0
        THEN [di |-> NilDownloadInfo, err |-> New("download info not found")]
        ELSE [di |-> rdq.Downloads[i],
              err |-> DownloadInfoChecks(rdq.Downloads[i], rdq.err)]

\* The records of the pair (rf, lf) among the renter's (history only).
Matches(lf, rf) == {i \in DOMAIN downloads :
                       /\ downloads[i].SiaPath = rf.siaPath
                       /\ downloads[i].Destination = lf.path}
\* The three invariants of a download record.
Consistent(di) ==
    /\ di.Length = di.Filesize
    /\ di.Received <= di.TotalDataTransferred
    /\ di.Completed => di.Received = di.Length

\* lf.checkIntegrity(): the checksum of what the file at lf.path holds now
\* (content; "unreadable" if it cannot be read) against lf.checksum
checkIntegrity(lf, content) ==
    IF content = lf.checksum THEN Nil ELSE New("checksums don't match")

\* Mutant of WaitForDownloadFn: the closure forgets to look at Completed.
WaitForDownloadFnAnyRecord(lf, rf, ok) ==
    AddContext(DownloadInfo(lf, rf, ok).err, "couldn't retrieve DownloadInfo")

\* func() error of WaitForDownload
WaitForDownloadFn(lf, rf, ok) ==
    LET r == DownloadInfo(lf, rf, ok)
    IN  IF r.err # Nil THEN AddContext(r.err, "couldn't retrieve DownloadInfo")
        ELSE IF r.di = NilDownloadInfo THEN Nil
        ELSE IF ~r.di.Completed THEN New("download hasn't finished yet")
        ELSE Nil

\* Mutant of WaitForDownload: the file is not verified after the polling.
WaitForDownloadUnverified(e) == "return"

\* WaitForDownload after Retry returned e: it returns e, or goes on to
\* verify the checksum.
WaitForDownload(e) == IF e # Nil THEN "return" ELSE "checkIntegrity"

----------------------------------------------------------------------------
(* Retry *)

\* Mutant of Retry: the error of the first failure is kept and returned.
RetryFirstError(maxTries, n, prev, e) ==
    IF e = Nil \/ n >= maxTries
    THEN [next |-> "return", err |-> IF e # Nil /\ prev # Nil THEN prev ELSE e]
    ELSE [next |-> "sleep", err |-> e]

\* Mutant of Retry: one attempt (and one sleep) too many.
RetryOneMore(maxTries, n, prev, e) ==
    IF e = Nil \/ n > maxTries
    THEN [next |-> "return", err |-> e]
    ELSE [next |-> "sleep", err |-> e]

\* Retry(tries, durationBetweenAttempts, fn), after invocation number n of
\* fn returned e (prev: what the invocation before it returned): Retry
\* returns e when fn succeeded or the attempts are used up, and otherwise
\* sleeps and invokes fn again.
Retry(maxTries, n, prev, e) ==
    IF e = Nil \/ n >= maxTries
    THEN [next |-> "return", err |-> e]
    ELSE [next |-> "sleep", err |-> e]

\* The errors of the function a test hands to Retry directly.
CheckErrs == {New("check failed (a)"), New("check failed (b)")}

----------------------------------------------------------------------------
(* The closures WaitForUploadProgress and WaitForUploadRedundancy poll *)

\* Mutant of WaitForUploadProgressFn: <= in place of <.
WaitForUploadProgressFnStrict(rf, progress, ok) ==
    LET r == FileInfo(rf, ok)
    IN  IF r.err # Nil
        THEN AddContext(r.err, "couldn't retrieve FileInfo")
        ELSE IF r.file.UploadProgress * progress[2] <= progress[1] * Scale
        THEN Errorf("progress should be %v but was %v", progress,
                    r.file.UploadProgress)
        ELSE Nil

\* func() error of WaitForUploadProgress
WaitForUploadProgressFn(rf, progress, ok) ==
    LET r == FileInfo(rf, ok)
    IN  IF r.err # Nil
        THEN AddContext(r.err, "couldn't retrieve FileInfo")
        ELSE IF Less(r.file.UploadProgress, progress)
        THEN Errorf("progress should be %v but was %v", progress,
                    r.file.UploadProgress)
        ELSE Nil

\* Mutant of WaitForUploadRedundancyFn: a failed lookup ends the polling
\* without an error.
WaitForUploadRedundancyFnLenient(rf, redundancy, ok) ==
    LET r == FileInfo(rf, ok)
    IN  IF r.err = Nil /\ Less(r.file.Redundancy, redundancy)
        THEN Errorf("redundancy should be %v but was %v", redundancy,
                    r.file.Redundancy)
        ELSE Nil

\* func() error of WaitForUploadRedundancy
WaitForUploadRedundancyFn(rf, redundancy, ok) ==
    LET r == FileInfo(rf, ok)
    IN  IF r.err # Nil
        THEN AddContext(r.err, "couldn't retrieve FileInfo")
        ELSE IF Less(r.file.Redundancy, redundancy)
        THEN Errorf("redundancy should be %v but was %v", redundancy,
                    r.file.Redundancy)
        ELSE Nil

\* Mutant of WaitLookup: the waits start to poll without the lookup.
WaitLookupSkipped(rf, ok) == Nil

\* The first statement of both waits: is the file tracked at all?
WaitLookup(rf, ok) ==
    IF FileInfo(rf, ok).err # Nil THEN New("file is not tracked by renter")
                                  ELSE Nil

\* float64(dataPieces+parityPieces) / float64(dataPieces)
RedundancyTarget(d, p) == <<d + p, d>>
\* the progress UploadNewFileBlocking waits for: 1
ProgressTarget == <<1, 1>>

----------------------------------------------------------------------------
(* Upload *)

\* lf.fileName(): the last element of the local path
fileName(lf) == lf.path[Len(lf.path)]

\* "/" + lf.fileName(), the sia path Upload hands to RenterUploadPost
UploadSiaPath(lf) == <<"/">> \o <<fileName(lf)>>

\* Mutant of UploadRemoteFile: the RemoteFile carries the path as posted.
UploadRemoteFilePosted(lf) ==
    [siaPath |-> <<"/">> \o <<fileName(lf)>>, checksum |-> lf.checksum]

\* rf := &RemoteFile{siaPath: lf.fileName(), checksum: lf.checksum}
UploadRemoteFile(lf) == [siaPath |-> <<fileName(lf)>>, checksum |-> lf.checksum]

\* The renter's name for an uploaded file: POST /renter/upload/<siapath>
\* registers the path without its leading "/".
TrimSlash(path) == IF Len(path) > 0 /\ Head(path) = "/" THEN Tail(path) ELSE path

\* tn.RenterUploadPost(path, siaPath, dataPieces, parityPieces): the renter
\* refuses the request, or starts to track a new file under the sia path.
RenterUploadPost(siaPath, ok) ==
    IF ok
    THEN /\ ~Tracked(TrimSlash(siaPath))
         /\ files' = Append(files, [SiaPath |-> TrimSlash(siaPath),
                                    Filesize |-> Max(ByteVals),
                                    UploadProgress |-> 0, Redundancy |-> 0])
    ELSE files' = files

\* Mutant of UploadTracked: the result of the lookup is dropped.
UploadTrackedIgnored(rf, ok) == Nil

\* The rest of Upload: make sure the renter tracks the file.
UploadTracked(rf, ok) ==
    AddContext(FileInfo(rf, ok).err, "uploaded file is not tracked by the renter")

\* UploadNewFile: the error of Upload with its context
UploadNewFile(e) == AddContext(e, "failed to start upload")

\* Mutant of UploadNewFileBlocking: a failed progress wait does not return.
UploadNewFileBlockingGoesOn(step, e) ==
    IF step = "UploadNewFile" THEN IF e # Nil THEN "return"
                                             ELSE "WaitForUploadProgress"
    ELSE IF step = "WaitForUploadProgress" THEN "WaitForUploadRedundancy"
    ELSE "return"

\* UploadNewFileBlocking, after its step `step` returned e: the step it
\* runs next, or "return" (with e).
UploadNewFileBlocking(step, e) ==
    IF e # Nil THEN "return"
    ELSE IF step = "UploadNewFile" THEN "WaitForUploadProgress"
    ELSE IF step = "WaitForUploadProgress" THEN "WaitForUploadRedundancy"
    ELSE "return"

----------------------------------------------------------------------------
(* State of the harness *)

\* Mutant of WaitTries: one attempt more than the budget.
WaitTriesOneMore == MaxAttempts + 1

\* The number of attempts every wait passes to Retry.
WaitTries == MaxAttempts

NoArg == [lf |-> NilLocalFile, rf |-> NilRemoteFile, d |-> 0, p |-> 0,
          target |-> NoTarget, maxTries |-> 0, async |-> FALSE, size |-> 0,
          posted |-> <<>>]
NoData == "nil"
NoRes == [rf |-> NilRemoteFile, lf |-> NilLocalFile, di |-> NilDownloadInfo,
          data |-> NoData, fi |-> ZeroFileInfo, files |-> <<>>, err |-> Nil]

\* A history entry: the phase, what its latest files request observed, the
\* number of invocations of the polled function, whether one of them observed
\* the awaited value, and whether a request of the phase found the file
\* untracked.
Entry(fn) == [fn |-> fn, kind |-> "none", val |-> -1, polls |-> 0, hit |-> FALSE,
              checked |-> "no", lost |-> FALSE]

\* What a files request for sia path p observes, in phase e.fn.
SeenFile(e, p, ok) ==
    IF ~ok THEN [e EXCEPT !.kind = "failed", !.val = -1]
    ELSE IF ~Tracked(p) THEN [e EXCEPT !.kind = "untracked", !.val = -1,
                                       !.lost = TRUE]
    ELSE [e EXCEPT !.kind = "tracked",
                   !.val = IF e.fn = "WaitForUploadProgress"
                           THEN files[TrackedAt(p)].UploadProgress
                           ELSE IF e.fn = "WaitForUploadRedundancy"
                           THEN files[TrackedAt(p)].Redundancy
                           ELSE -1]

Last(q) == q[Len(q)]
SetLast(q, e) == [q EXCEPT ![Len(q)] = e]

\* The history entry after a poll of wait fn for sia path p.
Polled(e, p, target, ok) ==
    LET s == SeenFile(e, p, ok)
    IN  [s EXCEPT !.polls = e.polls + 1,
                  !.hit = e.hit \/ (s.kind = "tracked" /\ ~Less(s.val, target))]

Init ==
    /\ files = <<>>
    /\ downloads = <<>>
    /\ op = "idle"
    /\ pc = <<"idle", "">>
    /\ arg = NoArg
    /\ tries = 0
    /\ sleeps = 0
    /\ err = Nil
    /\ res = NoRes
    /\ log = <<>>

\* The call returns (rf, e) to the test.
Return(rf, e) ==
    /\ pc' = <<op', "done">>
    /\ res' = [NoRes EXCEPT !.rf = rf, !.err = e]

\* The test takes the returned values; the harness is idle again.
Finish ==
    /\ pc[2] = "done"
    /\ op' = "idle"
    /\ pc' = <<"idle", "">>
    /\ arg' = NoArg
    /\ tries' = 0
    /\ sleeps' = 0
    /\ err' = Nil
    /\ res' = NoRes
    /\ log' = <<>>
    /\ UNCHANGED <<files, downloads>>

----------------------------------------------------------------------------
(* The renter changes the tracked files on its own *)

SvcTrackFile ==
    /\ \E f \in FileInfos :
          /\ ~Tracked(f.SiaPath)
          /\ files' = Append(files, f)
    /\ UNCHANGED <<downloads, op, pc, arg, tries, sleeps, err, res, log>>

SvcUpdateFile ==
    /\ \E i \in DOMAIN files, f \in FileInfos :
          /\ f.SiaPath = files[i].SiaPath
          /\ f # files[i]
          /\ files' = [files EXCEPT ![i] = f]
    /\ UNCHANGED <<downloads, op, pc, arg, tries, sleeps, err, res, log>>

SvcForgetFile ==
    /\ \E i \in DOMAIN files :
          files' = SubSeq(files, 1, i - 1) \o SubSeq(files, i + 1, Len(files))
    /\ UNCHANGED <<downloads, op, pc, arg, tries, sleeps, err, res, log>>

----------------------------------------------------------------------------
(* Upload, UploadNewFileBlocking *)

\* Upload up to the RemoteFile: the upload request.
UploadPost(top, lf, d, p, ok) ==
    LET rf == IF ok THEN UploadRemoteFile(lf) ELSE NilRemoteFile
        e  == IF ok THEN Nil ELSE TransportErr
    IN  /\ RenterUploadPost(UploadSiaPath(lf), ok)
        /\ op' = top
        /\ arg' = [NoArg EXCEPT !.lf = lf, !.d = d, !.p = p, !.rf = rf,
                                 !.posted = UploadSiaPath(lf)]
        /\ log' = <<[Entry("Upload") EXCEPT !.kind = IF ok THEN "posted" ELSE "refused"]>>
        /\ IF ok THEN pc' = <<"Upload", "FileInfo">> /\ res' = res
                 ELSE Return(rf, IF top = "Upload" THEN e ELSE UploadNewFile(e))
        /\ UNCHANGED <<downloads, tries, sleeps, err>>

\* Upload(lf, dataPieces, parityPieces), called by the test
UploadCall ==
    /\ op = "idle"
    /\ \E lf \in LocalFiles, dp \in Pieces, ok \in BOOLEAN :
          UploadPost("Upload", lf, dp[1], dp[2], ok)

\* UploadNewFileBlocking(filesize, dataPieces, parityPieces), called by the
\* test: NewFile creates a local file or fails, then Upload is entered.
UploadNewFileBlockingCall ==
    /\ op = "idle"
    /\ \/ \E lf \in LocalFiles, dp \in Pieces, ok \in BOOLEAN :
             UploadPost("UploadNewFileBlocking", lf, dp[1], dp[2], ok)
       \/ /\ op' = "UploadNewFileBlocking"
          /\ \E dp \in Pieces : arg' = [NoArg EXCEPT !.d = dp[1], !.p = dp[2]]
          /\ log' = <<[Entry("NewFile") EXCEPT !.kind = "failed"]>>
          /\ Return(NilRemoteFile,
                    AddContext(New("NewFile failed"), "failed to create file"))
          /\ UNCHANGED <<files, downloads, tries, sleeps, err>>

\* The end of Upload: the renter must track the file.
UploadFileInfo ==
    /\ pc = <<"Upload", "FileInfo">>
    /\ \E ok \in BOOLEAN :
          LET e  == UploadTracked(arg.rf, ok)
              e2 == IF op = "Upload" THEN e ELSE UploadNewFile(e)
          IN  /\ op' = op
              /\ log' = SetLast(log, SeenFile(Last(log), arg.rf.siaPath, ok))
              /\ IF op = "UploadNewFileBlocking"
                    /\ UploadNewFileBlocking("UploadNewFile", e2) # "return"
                 THEN /\ pc' = <<"WaitForUploadProgress", "FileInfo">>
                      /\ arg' = [arg EXCEPT !.target = ProgressTarget,
                                            !.maxTries = WaitTries]
                      /\ res' = res
                 ELSE /\ Return(arg.rf, e2)
                      /\ arg' = arg
    /\ UNCHANGED <<files, downloads, tries, sleeps, err>>

----------------------------------------------------------------------------
(* WaitForUploadProgress, WaitForUploadRedundancy *)

ProgressTargets == {<<1, 2>>, ProgressTarget}
RedundancyTargets == {RedundancyTarget(dp[1], dp[2]) : dp \in Pieces}

\* A wait returns e: to the test, or into UploadNewFileBlocking.
WaitReturn(fn, e) ==
    IF op' = "UploadNewFileBlocking"
    THEN IF UploadNewFileBlocking(fn, e) = "return"
         THEN /\ Return(arg.rf, e)
              /\ arg' = arg
         ELSE /\ pc' = <<UploadNewFileBlocking(fn, e), "FileInfo">>
              /\ arg' = [arg EXCEPT !.target = RedundancyTarget(arg.d, arg.p)]
              /\ res' = res
    ELSE /\ Return(NilRemoteFile, e)
         /\ arg' = arg

\* The first statement of wait fn with the arguments a: one files request.
WaitFileInfo(fn, a) ==
    \E ok \in BOOLEAN :
        LET e == WaitLookup(a.rf, ok)
        IN  /\ log' = Append(log, SeenFile(Entry(fn), a.rf.siaPath, ok))
            /\ IF e # Nil
               THEN /\ Return(IF op' = "UploadNewFileBlocking" THEN a.rf
                                                               ELSE NilRemoteFile, e)
                    /\ arg' = a
               ELSE /\ pc' = <<fn, "fn">>
                    /\ arg' = a
                    /\ res' = res
            /\ tries' = 0
            /\ sleeps' = 0
            /\ err' = Nil

\* Retry invokes the function it polls, which returns e.
RetryInvoke(fn, a, e) ==
    LET n == tries + 1
        r == Retry(a.maxTries, n, err, e)
    IN  /\ tries' = n
        /\ err' = e
        /\ sleeps' = sleeps
        /\ r.next = "sleep" => /\ pc' = <<fn, "Sleep">>
                               /\ arg' = a
                               /\ res' = res

\* WaitForUploadProgress(rf, progress), called by the test
WaitForUploadProgressCall ==
    /\ op = "idle"
    /\ op' = "WaitForUploadProgress"
    /\ \E rf \in RemoteFiles, t \in ProgressTargets :
          WaitFileInfo("WaitForUploadProgress",
                       [NoArg EXCEPT !.rf = rf, !.target = t, !.maxTries = WaitTries])
    /\ UNCHANGED <<files, downloads>>

\* WaitForUploadRedundancy(rf, redundancy), called by the test
WaitForUploadRedundancyCall ==
    /\ op = "idle"
    /\ op' = "WaitForUploadRedundancy"
    /\ \E rf \in RemoteFiles, t \in RedundancyTargets :
          WaitFileInfo("WaitForUploadRedundancy",
                       [NoArg EXCEPT !.rf = rf, !.target = t, !.maxTries = WaitTries])
    /\ UNCHANGED <<files, downloads>>

\* The waits as UploadNewFileBlocking enters them
WaitForUploadNested ==
    /\ pc[2] = "FileInfo"
    /\ pc[1] \in {"WaitForUploadProgress", "WaitForUploadRedundancy"}
    /\ op' = op
    /\ WaitFileInfo(pc[1], arg)
    /\ UNCHANGED <<files, downloads>>

\* One attempt of WaitForUploadProgress: Retry invokes the closure.
WaitForUploadProgressPoll ==
    /\ pc = <<"WaitForUploadProgress", "fn">>
    /\ op' = op
    /\ \E ok \in BOOLEAN :
          LET e == WaitForUploadProgressFn(arg.rf, arg.target, ok)
          IN  /\ RetryInvoke(pc[1], arg, e)
              /\ log' = SetLast(log, Polled(Last(log), arg.rf.siaPath,
                                            arg.target, ok))
              /\ Retry(arg.maxTries, tries + 1, err, e).next = "return"
                    => WaitReturn(pc[1], Retry(arg.maxTries, tries + 1, err, e).err)
    /\ UNCHANGED <<files, downloads>>

\* One attempt of WaitForUploadRedundancy: Retry invokes the closure.
WaitForUploadRedundancyPoll ==
    /\ pc = <<"WaitForUploadRedundancy", "fn">>
    /\ op' = op
    /\ \E ok \in BOOLEAN :
          LET e == WaitForUploadRedundancyFn(arg.rf, arg.target, ok)
          IN  /\ RetryInvoke(pc[1], arg, e)
              /\ log' = SetLast(log, Polled(Last(log), arg.rf.siaPath,
                                            arg.target, ok))
              /\ Retry(arg.maxTries, tries + 1, err, e).next = "return"
                    => WaitReturn(pc[1], Retry(arg.maxTries, tries + 1, err, e).err)
    /\ UNCHANGED <<files, downloads>>

\* time.Sleep(durationBetweenAttempts) between two attempts of Retry
RetrySleep ==
    /\ pc[2] = "Sleep"
    /\ pc' = <<pc[1], "fn">>
    /\ sleeps' = sleeps + 1
    /\ UNCHANGED <<files, downloads, op, arg, tries, err, res, log>>

\* Retry(tries, interval, fn), called by the test with a function of its
\* own, and each further attempt of that call.
RetryCall ==
    /\ \/ /\ op = "idle"
          /\ op' = "Retry"
          /\ \E m \in 1..MaxAttempts : arg' = [NoArg EXCEPT !.maxTries = m]
          /\ log' = <<[Entry("Retry") EXCEPT !.polls = 1]>>
       \/ /\ pc = <<"Retry", "fn">>
          /\ op' = op
          /\ arg' = arg
          /\ log' = SetLast(log, [Last(log) EXCEPT !.polls = @ + 1])
    /\ \E e \in CheckErrs \cup {Nil} :
          /\ RetryInvoke("Retry", arg', e)
          /\ Retry(arg'.maxTries, tries + 1, err, e).next = "return"
                => Return(NilRemoteFile, Retry(arg'.maxTries, tries + 1, err, e).err)
    /\ UNCHANGED <<files, downloads>>

NextUpload ==
    \/ SvcTrackFile
    \/ SvcUpdateFile
    \/ SvcForgetFile
    \/ UploadCall
    \/ UploadNewFileBlockingCall
    \/ UploadFileInfo
    \/ WaitForUploadProgressCall
    \/ WaitForUploadRedundancyCall
    \/ WaitForUploadNested
    \/ WaitForUploadProgressPoll
    \/ WaitForUploadRedundancyPoll
    \/ RetrySleep
    \/ RetryCall
    \/ Finish

SpecUpload == Init /\ [][NextUpload]_vars

----------------------------------------------------------------------------
(* DownloadInfo, WaitForDownload *)

\* The test's (local file, remote file) pairs: DownloadToDisk gives the
\* local file the checksum of the remote one.
DownloadPairs == {pr \in LocalFiles \X RemoteFiles : pr[1].checksum = pr[2].checksum}

\* The records the renter reports while a wait is observed.
LiveDownloads == {d \in DownloadInfos :
                     /\ d.Destination \in {lf.path : lf \in LocalFiles}
                     /\ d.Filesize = d.Length
                     /\ d.TotalDataTransferred = d.Length}

\* All lists of at most n elements of S.
SeqsUpTo(S, n) == UNION {[1..k -> S] : k \in 0..n}

\* What a downloads request observes of the pair (lf, rf).
SeenDownload(e, lf, rf, ok) ==
    IF ~ok THEN [e EXCEPT !.kind = "failed"]
    ELSE IF Matches(lf, rf) = {} THEN [e EXCEPT !.kind = "absent"]
    ELSE LET i == CHOOSE k \in Matches(lf, rf) : \A j \in Matches(lf, rf) : k <= j
         IN  [e EXCEPT !.kind = IF downloads[i].Completed THEN "completed"
                                                          ELSE "pending"]

SvcStartDownload ==
    /\ Len(downloads) < MaxDownloads
    /\ \E d \in LiveDownloads : downloads' = Append(downloads, d)
    /\ UNCHANGED <<files, op, pc, arg, tries, sleeps, err, res, log>>

SvcUpdateDownload ==
    /\ \E i \in DOMAIN downloads, d \in LiveDownloads :
          /\ d.SiaPath = downloads[i].SiaPath
          /\ d.Destination = downloads[i].Destination
          /\ d # downloads[i]
          /\ downloads' = [downloads EXCEPT ![i] = d]
    /\ UNCHANGED <<files, op, pc, arg, tries, sleeps, err, res, log>>

SvcReapDownload ==
    /\ \E i \in DOMAIN downloads :
          downloads' = SubSeq(downloads, 1, i - 1)
                          \o SubSeq(downloads, i + 1, Len(downloads))
    /\ UNCHANGED <<files, op, pc, arg, tries, sleeps, err, res, log>>

\* DownloadInfo(lf, rf), called by the test
DownloadInfoCall ==
    /\ op = "idle"
    /\ op' = "DownloadInfo"
    /\ \E pr \in DownloadPairs, ok \in BOOLEAN :
          LET r == DownloadInfo(pr[1], pr[2], ok)
          IN  /\ arg' = [NoArg EXCEPT !.lf = pr[1], !.rf = pr[2]]
              /\ log' = <<SeenDownload(Entry("DownloadInfo"), pr[1], pr[2], ok)>>
              /\ pc' = <<"DownloadInfo", "done">>
              /\ res' = [NoRes EXCEPT !.di = r.di, !.err = r.err]
    /\ UNCHANGED <<files, downloads, tries, sleeps, err>>

\* WaitForDownload(lf, rf), called by the test, and each further attempt of
\* that call: Retry invokes the closure.
WaitForDownloadPoll ==
    /\ \/ /\ op = "idle"
          /\ op' = "WaitForDownload"
          /\ \E pr \in DownloadPairs :
                arg' = [NoArg EXCEPT !.lf = pr[1], !.rf = pr[2],
                                     !.maxTries = WaitTries]
       \/ /\ pc = <<"WaitForDownload", "fn">>
          /\ op' = op
          /\ arg' = arg
    /\ \E ok \in BOOLEAN :
          LET e  == WaitForDownloadFn(arg'.lf, arg'.rf, ok)
              r  == Retry(arg'.maxTries, tries + 1, err, e)
              e0 == IF op = "idle" THEN Entry("WaitForDownload") ELSE Last(log)
          IN  /\ RetryInvoke("WaitForDownload", arg', e)
              /\ log' = <<[SeenDownload(e0, arg'.lf, arg'.rf, ok)
                              EXCEPT !.polls = e0.polls + 1]>>
              /\ r.next = "return" =>
                    IF WaitForDownload(r.err) = "return"
                    THEN Return(NilRemoteFile, r.err)
                    ELSE /\ pc' = <<"WaitForDownload", "checkIntegrity">>
                         /\ res' = res
    /\ UNCHANGED <<files, downloads>>

\* The end of WaitForDownload: return lf.checkIntegrity()
WaitForDownloadVerify ==
    /\ pc = <<"WaitForDownload", "checkIntegrity">>
    /\ op' = op
    /\ \E content \in Checksums \cup {"unreadable"} :
          /\ log' = SetLast(log, [Last(log) EXCEPT
                         !.checked = IF content = arg.lf.checksum THEN "passed"
                                                                  ELSE "failed"])
          /\ Return(NilRemoteFile, checkIntegrity(arg.lf, content))
    /\ UNCHANGED <<files, downloads, arg, tries, sleeps, err>>

NextDownload ==
    \/ SvcStartDownload
    \/ SvcUpdateDownload
    \/ SvcReapDownload
    \/ WaitForDownloadPoll
    \/ WaitForDownloadVerify
    \/ RetrySleep
    \/ Finish

SpecDownload == Init /\ [][NextDownload]_vars

\* DownloadInfo on every list of download records
InitInfo ==
    /\ downloads \in SeqsUpTo(DownloadInfos, MaxDownloads)
    /\ files = <<>>
    /\ op = "idle"
    /\ pc = <<"idle", "">>
    /\ arg = NoArg
    /\ tries = 0
    /\ sleeps = 0
    /\ err = Nil
    /\ res = NoRes
    /\ log = <<>>

NextInfo ==
    \/ DownloadInfoCall
    \/ Finish

SpecInfo == InitInfo /\ [][NextInfo]_vars

----------------------------------------------------------------------------
(* DownloadToDisk, DownloadByStream *)

\* The bytes a stream download returns, and crypto.HashAll of them.
Data == {"d1", "d2"}
HashAll(data) == IF data = "d1" THEN "h1" ELSE IF data = "d2" THEN "h2" ELSE "h0"

\* The LocalFile DownloadToDisk builds for the destination dest.
DownloadToDiskFile(dest, rf) == [path |-> dest, checksum |-> rf.checksum]

\* Mutant of DownloadToDiskVerify: the result of the check is dropped.
DownloadToDiskUnverified(lf, async, content) == Nil

\* The end of DownloadToDisk: no check of an asynchronous download, else the
\* result of lf.checkIntegrity() with context.
DownloadToDiskVerify(lf, async, content) ==
    IF async THEN Nil
    ELSE AddContext(checkIntegrity(lf, content),
                    "downloaded file's checksum doesn't match")

\* Mutant of DownloadByStreamCheck: the bytes are not compared.
DownloadByStreamUnchecked(rf, data, e) == e

\* The end of DownloadByStream: the checksum of the bytes against that of rf,
\* e being the error of the request.
DownloadByStreamCheck(rf, data, e) ==
    IF e = Nil /\ rf.checksum # HashAll(data)
    THEN New("downloaded bytes don't match requested data")
    ELSE e

\* tn.RenterDownloadGet(siaPath, dest, 0, length, async): the renter refuses
\* the request or records a download of the file to dest; the request of a
\* blocking download returns when the download has completed.
RenterDownloadGet(siaPath, dest, length, async, ok) ==
    IF ok
    THEN /\ Len(downloads) < MaxDownloads
         /\ downloads' = Append(downloads,
               [SiaPath |-> siaPath, Destination |-> dest, Length |-> length,
                Filesize |-> length,
                Received |-> IF async THEN Max(ByteVals \ {length}) ELSE length,
                TotalDataTransferred |-> length, Completed |-> ~async])
    ELSE downloads' = downloads

\* DownloadToDisk(rf, async), called by the test: tn.FileInfo(rf)
DownloadToDiskCall ==
    /\ op = "idle"
    /\ op' = "DownloadToDisk"
    /\ \E rf \in RemoteFiles, async \in BOOLEAN, ok \in BOOLEAN :
          LET r == FileInfo(rf, ok)
          IN  /\ arg' = [NoArg EXCEPT !.rf = rf, !.async = async,
                                      !.size = r.file.Filesize]
              /\ log' = <<SeenFile(Entry("DownloadToDisk"), rf.siaPath, ok)>>
              /\ IF r.err # Nil
                 THEN Return(NilRemoteFile,
                             AddContext(r.err, "failed to retrieve FileInfo"))
                 ELSE /\ pc' = <<"DownloadToDisk", "RenterDownloadGet">>
                      /\ res' = res
    /\ UNCHANGED <<files, downloads, tries, sleeps, err>>

\* The rest of DownloadToDisk: the download request to a fresh destination,
\* and the check of what a blocking download wrote.
DownloadToDiskGet ==
    /\ pc = <<"DownloadToDisk", "RenterDownloadGet">>
    /\ op' = op
    /\ \E dest \in LocalPaths, ok \in BOOLEAN,
          content \in Checksums \cup {"unreadable"} :
          LET lf == DownloadToDiskFile(dest, arg.rf)
          IN  /\ RenterDownloadGet(arg.rf.siaPath, dest, arg.size, arg.async, ok)
              /\ pc' = <<op', "done">>
              /\ IF ~ok
                 THEN /\ res' = [NoRes EXCEPT !.err =
                             AddContext(TransportErr, "failed to download file")]
                      /\ log' = SetLast(log, [Last(log) EXCEPT !.kind = "refused"])
                      /\ arg' = arg
                 ELSE /\ res' = [NoRes EXCEPT !.lf = lf, !.err =
                             DownloadToDiskVerify(lf, arg.async, content)]
                      /\ log' = SetLast(log, [Last(log) EXCEPT
                             !.kind = "started",
                             !.checked = IF arg.async THEN "no"
                                         ELSE IF content = arg.rf.checksum
                                         THEN "passed" ELSE "failed"])
                      /\ arg' = [arg EXCEPT !.lf = lf]
    /\ UNCHANGED <<files, tries, sleeps, err>>

\* DownloadByStream(rf), called by the test: tn.FileInfo(rf)
DownloadByStreamCall ==
    /\ op = "idle"
    /\ op' = "DownloadByStream"
    /\ \E rf \in RemoteFiles, ok \in BOOLEAN :
          LET r == FileInfo(rf, ok)
          IN  /\ arg' = [NoArg EXCEPT !.rf = rf, !.size = r.file.Filesize]
              /\ log' = <<SeenFile(Entry("DownloadByStream"), rf.siaPath, ok)>>
              /\ IF r.err # Nil
                 THEN Return(NilRemoteFile,
                             AddContext(r.err, "failed to retrieve FileInfo"))
                 ELSE /\ pc' = <<"DownloadByStream", "RenterDownloadHTTPResponseGet">>
                      /\ res' = res
    /\ UNCHANGED <<files, downloads, tries, sleeps, err>>

\* The rest of DownloadByStream: tn.RenterDownloadHTTPResponseGet(siaPath, 0,
\* fi.Filesize) fails or returns bytes, which are compared with rf.checksum.
DownloadByStreamGet ==
    /\ pc = <<"DownloadByStream", "RenterDownloadHTTPResponseGet">>
    /\ op' = op
    /\ \E ok \in BOOLEAN, bytes \in Data :
          LET data == IF ok THEN bytes ELSE NoData
              e    == IF ok THEN Nil ELSE TransportErr
          IN  /\ pc' = <<op', "done">>
              /\ res' = [NoRes EXCEPT !.data = data,
                                      !.err = DownloadByStreamCheck(arg.rf, data, e)]
              /\ log' = SetLast(log, [Last(log) EXCEPT
                     !.kind = IF ok THEN "fetched" ELSE "refused",
                     !.checked = IF ~ok THEN "no"
                                 ELSE IF HashAll(bytes) = arg.rf.checksum
                                 THEN "passed" ELSE "failed"])
    /\ UNCHANGED <<files, downloads, arg, tries, sleeps, err>>

NextDisk ==
    \/ SvcTrackFile
    \/ SvcForgetFile
    \/ SvcReapDownload
    \/ DownloadToDiskCall
    \/ DownloadToDiskGet
    \/ DownloadByStreamCall
    \/ DownloadByStreamGet
    \/ Finish

SpecDisk == Init /\ [][NextDisk]_vars

----------------------------------------------------------------------------
(* The three waits and the renter, with a caller that keeps running *)

AllWaits == {"WaitForUploadProgress", "WaitForUploadRedundancy",
             "WaitForDownload"}

\* The upload waits read the tracked files only, WaitForDownload the
\* download records only: the renter varies one of its two lists at a time,
\* and during a wait the list that wait reads.
FilesVary == downloads = <<>> /\ op # "WaitForDownload"
DownloadsVary == files = <<>> /\ op \in {"idle", "WaitForDownload"}

NextWaits ==
    \/ FilesVary /\ SvcTrackFile
    \/ FilesVary /\ SvcUpdateFile
    \/ SvcForgetFile
    \/ DownloadsVary /\ SvcStartDownload
    \/ DownloadsVary /\ SvcUpdateDownload
    \/ SvcReapDownload
    \/ WaitForUploadProgressCall
    \/ WaitForUploadRedundancyCall
    \/ WaitForUploadProgressPoll
    \/ WaitForUploadRedundancyPoll
    \/ WaitForDownloadPoll
    \/ WaitForDownloadVerify
    \/ RetrySleep
    \/ Finish

\* A step of the goroutine that called a wait: a request returns, a
\* time.Sleep ends, the local file has been read.
WaitStep ==
    \/ WaitForUploadProgressPoll
    \/ WaitForUploadRedundancyPoll
    \/ WaitForDownloadPoll
    \/ WaitForDownloadVerify
    \/ RetrySleep

\* The calling goroutine is scheduled again and again, whatever the renter
\* does in between.
SpecWaits == Init /\ [][NextWaits]_vars /\ WF_vars(WaitStep)

----------------------------------------------------------------------------
(* Files, FileInfo as the test calls them; every operation on one renter *)

\* Mutant of FilesCall: the request also makes the renter forget its files.
FilesCallForgetting ==
    /\ op = "idle"
    /\ op' = "Files"
    /\ \E ok \in BOOLEAN :
          /\ log' = <<[Entry("Files") EXCEPT !.kind = IF ok THEN "listed"
                                                           ELSE "failed"]>>
          /\ res' = [NoRes EXCEPT !.files = Files(ok).files, !.err = Files(ok).err]
    /\ pc' = <<"Files", "done">>
    /\ arg' = NoArg
    /\ files' = <<>>
    /\ UNCHANGED <<downloads, tries, sleeps, err>>

\* Files(), called by the test
FilesCall ==
    /\ op = "idle"
    /\ op' = "Files"
    /\ \E ok \in BOOLEAN :
          /\ log' = <<[Entry("Files") EXCEPT !.kind = IF ok THEN "listed"
                                                           ELSE "failed"]>>
          /\ res' = [NoRes EXCEPT !.files = Files(ok).files, !.err = Files(ok).err]
    /\ pc' = <<"Files", "done">>
    /\ arg' = NoArg
    /\ UNCHANGED <<files, downloads, tries, sleeps, err>>

\* FileInfo(rf), called by the test
FileInfoCall ==
    /\ op = "idle"
    /\ op' = "FileInfo"
    /\ \E rf \in RemoteFiles, ok \in BOOLEAN :
          /\ arg' = [NoArg EXCEPT !.rf = rf]
          /\ log' = <<SeenFile(Entry("FileInfo"), rf.siaPath, ok)>>
          /\ res' = [NoRes EXCEPT !.fi = FileInfo(rf, ok).file,
                                  !.err = FileInfo(rf, ok).err]
    /\ pc' = <<"FileInfo", "done">>
    /\ UNCHANGED <<files, downloads, tries, sleeps, err>>

\* A renter with at most one tracked file and one download record, which
\* nobody but the test under observation uses.
InitFrame ==
    /\ files \in SeqsUpTo(FileInfos, 1)
    /\ downloads \in SeqsUpTo(LiveDownloads, 1)
    /\ op = "idle"
    /\ pc = <<"idle", "">>
    /\ arg = NoArg
    /\ tries = 0
    /\ sleeps = 0
    /\ err = Nil
    /\ res = NoRes
    /\ log = <<>>

NextFrame ==
    \/ UploadCall
    \/ UploadFileInfo
    \/ WaitForUploadProgressCall
    \/ WaitForUploadRedundancyCall
    \/ WaitForUploadProgressPoll
    \/ WaitForUploadRedundancyPoll
    \/ WaitForDownloadPoll
    \/ WaitForDownloadVerify
    \/ RetrySleep
    \/ DownloadInfoCall
    \/ FilesCall
    \/ FileInfoCall
    \/ DownloadToDiskCall
    \/ DownloadToDiskGet
    \/ DownloadByStreamCall
    \/ DownloadByStreamGet
    \/ Finish

SpecFrame == InitFrame /\ [][NextFrame]_vars

----------------------------------------------------------------------------
(* Properties *)

Done(name) == op = name /\ pc = <<name, "done">>
Waits == {"WaitForUploadProgress", "WaitForUploadRedundancy"}
\* The first record of the pair (lf, rf) in the renter's list.
FirstMatch(lf, rf) ==
    downloads[CHOOSE k \in Matches(lf, rf) : \A j \in Matches(lf, rf) : k <= j]

\* C1: DownloadInfo(lf, rf), called when no record of the renter's download
\* list has the sia path of rf and the destination of lf, returns no record
\* and no error.
C1_AbsentRecordIsNoError ==
    (Done("DownloadInfo") /\ Last(log).kind = "absent")
        => (res.di = NilDownloadInfo /\ res.err = Nil)

\* The call of C1 has happened: the list was fetched and holds no record of
\* the pair.
C1_Witness ==
    /\ Done("DownloadInfo")
    /\ Last(log).kind = "absent"
    /\ downloads # <<>>

\* C2: for a matching record DownloadInfo returns the record itself, and a
\* non-nil error exactly if the record violates one of the three invariants
\* (length == fileSize, received <= totalTransferred, completed implies
\* received == length).
C2_InconsistentRecordIsReported ==
    (Done("DownloadInfo") /\ Last(log).kind \in {"pending", "completed"})
        => /\ res.di = FirstMatch(arg.lf, arg.rf)
           /\ res.err = Nil <=> Consistent(res.di)

\* The scenario of C2: a record found with received = 10, transferred = 5.
C2_Witness ==
    /\ Done("DownloadInfo")
    /\ res.di # NilDownloadInfo
    /\ res.di.Received = 10
    /\ res.di.TotalDataTransferred = 5

\* C3: when a poll of WaitForDownload finds no record of the pair, polling
\* ends in success at that poll: the call goes on to the checksum and neither
\* sleeps, polls again nor returns the error of an attempt.
C3_AbsentRecordEndsPolling ==
    (op = "WaitForDownload" /\ Last(log).kind = "absent")
        => \/ pc = <<"WaitForDownload", "checkIntegrity">>
           \/ Done("WaitForDownload") /\ Last(log).checked # "no"

\* A poll of WaitForDownload has found no record of the pair.
C3_Witness ==
    /\ op = "WaitForDownload"
    /\ Last(log).kind = "absent"
    /\ Last(log).polls = 1

\* C4: WaitForDownload returns success only if its last poll found no record
\* or a completed one, and the checksum of the local file was verified after
\* the polling and matched; the verification is the last step of the call.
C4_SuccessIsCompletedAndVerified ==
    /\ (Done("WaitForDownload") /\ res.err = Nil)
          => /\ Last(log).kind \in {"absent", "completed"}
             /\ Last(log).checked = "passed"
    /\ (op = "WaitForDownload" /\ Last(log).checked # "no")
          => Done("WaitForDownload")
    /\ (Done("WaitForDownload") /\ Last(log).checked = "failed")
          => res.err # Nil

\* WaitForDownload returned success after it saw the download pending first.
C4_Witness ==
    /\ Done("WaitForDownload")
    /\ res.err = Nil
    /\ Last(log).kind = "completed"
    /\ Last(log).polls > 1

\* C5: Retry(maxAttempts, interval, check) invokes check at most maxAttempts
\* times, never again after a success, and when all attempts failed it
\* returns the error of the last invocation.
C5_RetryReturnsLastError ==
    /\ log # <<>> => Last(log).polls <= arg.maxTries
    /\ (pc[2] \in {"fn", "Sleep"} /\ tries > 0) => err # Nil
    /\ (pc[2] = "done" /\ op \in Waits \cup {"Retry"} /\ Last(log).polls > 0)
          => /\ res.err = err
             /\ res.err # Nil => Last(log).polls = arg.maxTries

\* Retry used up several attempts, the last two with different errors.
C5_Witness ==
    /\ Done("Retry")
    /\ arg.maxTries > 1
    /\ Last(log).polls = arg.maxTries
    /\ res.err = New("check failed (b)")

\* C6: Retry sleeps after each failed attempt but the last and never after a
\* success: when it returns, the number of sleeps is the number of
\* invocations minus one, and with maxAttempts = 1 there is one invocation and
\* no sleep.
C6_SleepsBetweenAttempts ==
    /\ pc[2] = "Sleep" => /\ err # Nil
                          /\ Last(log).polls < arg.maxTries
                          /\ sleeps = Last(log).polls - 1
    /\ (pc[2] = "fn" /\ Last(log).polls > 0) => sleeps = Last(log).polls
    /\ (pc[2] = "done" /\ op \in Waits \cup {"Retry"} /\ Last(log).polls > 0)
          => sleeps = Last(log).polls - 1
    /\ (Done("Retry") /\ arg.maxTries = 1)
          => (Last(log).polls = 1 /\ sleeps = 0)

\* Retry with maxAttempts = 1 returned the error of its only attempt.
C6_Witness ==
    /\ Done("Retry")
    /\ arg.maxTries = 1
    /\ res.err # Nil

\* C7: WaitForUploadProgress and WaitForUploadRedundancy, called for a file
\* the renter does not track, fail at once with the untracked-file error,
\* without any attempt and without any sleep.
C7_UntrackedFailsAtOnce ==
    (log # <<>> /\ Last(log).fn \in Waits /\ Last(log).polls = 0
                /\ Last(log).kind = "untracked")
        => /\ pc[2] = "done"
           /\ res.err = New("file is not tracked by renter")
           /\ tries = 0
           /\ sleeps = 0

\* WaitForUploadRedundancy was called for an untracked file.
C7_Witness ==
    /\ Done("WaitForUploadRedundancy")
    /\ Last(log).kind = "untracked"
    /\ Last(log).polls = 0

\* The error a poll of wait fn builds from what it observed.
PollError(e, target) ==
    IF e.kind = "failed"
    THEN AddContext(TransportErr, "couldn't retrieve FileInfo")
    ELSE IF e.kind = "untracked"
    THEN AddContext(New("file is not tracked by the renter"),
                    "couldn't retrieve FileInfo")
    ELSE IF e.fn = "WaitForUploadProgress"
    THEN Errorf("progress should be %v but was %v", target, e.val)
    ELSE Errorf("redundancy should be %v but was %v", target, e.val)

\* C8: WaitForUploadProgress (WaitForUploadRedundancy) makes at most the
\* budgeted number of polls and returns success exactly if one of them
\* observed the file with a value >= target, at the first such poll; when
\* the budget is used up it returns the error built from the last poll, with
\* the value that poll observed.
C8_WaitSucceedsIffObserved ==
    (log # <<>> /\ Last(log).fn \in Waits) =>
        /\ Last(log).polls <= MaxAttempts
        /\ Last(log).hit => /\ pc[2] \notin {"fn", "Sleep"}
                             /\ Last(log).kind = "tracked"
                             /\ pc[1] = Last(log).fn
                                   => ~Less(Last(log).val, arg.target)
        /\ (pc[2] = "done" /\ op \in Waits) => (res.err = Nil <=> Last(log).hit)
        /\ (pc[2] = "done" /\ Last(log).polls > 0 /\ ~Last(log).hit)
              => /\ Last(log).polls = MaxAttempts
                 /\ res.err = PollError(Last(log), arg.target)

\* WaitForUploadProgress used up its budget on a tracked file whose progress
\* stayed below the target.
C8_Witness ==
    /\ Done("WaitForUploadProgress")
    /\ Last(log).polls = MaxAttempts
    /\ Last(log).kind = "tracked"
    /\ res.err = Errorf("progress should be %v but was %v", arg.target, Last(log).val)

\* C9: UploadNewFileBlocking runs upload, progress wait and redundancy wait
\* in this order, each only after the one before it succeeded; a failed step
\* ends the call with an error; a successful return implies that a poll
\* observed progress >= 1.0 and a later poll redundancy >= (d+p)/d.
C9_BlockingUploadInOrder ==
    op = "UploadNewFileBlocking" =>
        /\ \/ Len(log) = 1 /\ log[1].fn \in {"NewFile", "Upload"}
           \/ /\ Len(log) \in {2, 3}
              /\ \A i \in DOMAIN log :
                    log[i].fn = <<"Upload", "WaitForUploadProgress",
                                  "WaitForUploadRedundancy">>[i]
        /\ Len(log) >= 2 => log[1].kind = "tracked"
        /\ Len(log) = 3 => /\ log[2].kind = "tracked"
                            /\ log[2].val >= Scale
        /\ (pc[2] = "done" /\ res.err = Nil)
              => /\ Len(log) = 3
                 /\ log[3].kind = "tracked"
                 /\ log[3].val * arg.d >= (arg.d + arg.p) * Scale
                 /\ res.rf = UploadRemoteFile(arg.lf)
        /\ (pc[2] = "done" /\ Len(log) < 3) => res.err # Nil

\* UploadNewFileBlocking returned success for d = 2, p = 2: redundancy 2.0.
C9_Witness ==
    /\ Done("UploadNewFileBlocking")
    /\ res.err = Nil
    /\ arg.d = 2
    /\ arg.p = 2
    /\ log[3].val >= 2 * Scale
    /\ log[2].polls > 1

\* C10: Upload returns no remote file and the error when the upload request
\* fails; the remote file (with the checksum of the local file) and an
\* untracked-file error when the renter does not track the file afterwards;
\* and the remote file without an error only if the renter tracks it.
C10_UploadReportsUntracked ==
    Done("Upload") =>
        /\ Last(log).kind = "refused"
              => (res.rf = NilRemoteFile /\ res.err # Nil)
        /\ Last(log).kind = "untracked"
              => /\ res.rf # NilRemoteFile
                 /\ res.rf.checksum = arg.lf.checksum
                 /\ res.err = AddContext(New("file is not tracked by the renter"),
                                         "uploaded file is not tracked by the renter")
        /\ res.err = Nil
              => /\ Last(log).kind = "tracked"
                 /\ res.rf.checksum = arg.lf.checksum
                 /\ res.rf # NilRemoteFile

\* Upload succeeded in posting the file, which the renter no longer tracked
\* at the lookup.
C10_Witness ==
    /\ Done("Upload")
    /\ Last(log).kind = "untracked"
    /\ res.rf # NilRemoteFile

\* C11: DownloadToDisk returns no local file and an error when the file info
\* lookup or the download request fails.  When the request succeeds it returns
\* a local file whose checksum is that of the remote file: for an asynchronous
\* download with no error and without any integrity check, for a blocking one
\* after the integrity check, whose failure is returned as an error together
\* with the local file.
C11_DownloadToDiskModes ==
    Done("DownloadToDisk") =>
        LET e == Last(log)
        IN  /\ e.kind \in {"failed", "untracked", "refused"} =>
                  /\ res.lf = NilLocalFile
                  /\ res.err # Nil
                  /\ e.checked = "no"
            /\ e.kind \notin {"failed", "untracked", "refused"} =>
                  /\ e.kind = "started"
                  /\ res.lf # NilLocalFile
                  /\ res.lf.checksum = arg.rf.checksum
                  /\ arg.async => e.checked = "no" /\ res.err = Nil
                  /\ ~arg.async => e.checked \in {"passed", "failed"}
                  /\ e.checked = "passed" => res.err = Nil
                  /\ e.checked = "failed" => res.err # Nil

\* A blocking download whose file fails the integrity check.
C11_Witness ==
    /\ Done("DownloadToDisk")
    /\ ~arg.async
    /\ Last(log).checked = "failed"
    /\ res.lf # NilLocalFile
    /\ res.err # Nil

\* C12: DownloadByStream returns no error exactly when the file info lookup
\* and the request succeeded and the checksum of the returned bytes is that
\* of the remote file; bytes with another checksum give the mismatch error,
\* which is not the error of a failed request.
C12_StreamChecksBytes ==
    Done("DownloadByStream") =>
        LET e == Last(log)
        IN  /\ res.err = Nil <=> (e.kind = "fetched" /\ e.checked = "passed")
            /\ res.err = Nil => HashAll(res.data) = arg.rf.checksum
            /\ (e.kind = "fetched" /\ e.checked = "failed") =>
                  /\ res.err = New("downloaded bytes don't match requested data")
                  /\ res.err # TransportErr
                  /\ res.data \in Data
            /\ e.kind = "refused" => res.err = TransportErr

\* A stream download that returned bytes of another file.
C12_Witness ==
    /\ Done("DownloadByStream")
    /\ Last(log).kind = "fetched"
    /\ HashAll(res.data) # arg.rf.checksum
    /\ res.err # Nil

\* C13: a record DownloadInfo returns has the sia path of rf and the
\* destination of lf, and it is the first such record of the renter's list;
\* whenever the request succeeds and the list has such a record, that one is
\* returned.
C13_RecordOfThePair ==
    Done("DownloadInfo") =>
        /\ res.di # NilDownloadInfo =>
              /\ res.di.SiaPath = arg.rf.siaPath
              /\ res.di.Destination = arg.lf.path
              /\ Matches(arg.lf, arg.rf) # {}
              /\ res.di = FirstMatch(arg.lf, arg.rf)
        /\ Last(log).kind \in {"pending", "completed"} =>
              res.di = FirstMatch(arg.lf, arg.rf)

\* The first record is a download of the same remote file to another
\* destination; the record of the pair comes second and is returned.
C13_Witness ==
    /\ Done("DownloadInfo")
    /\ Len(downloads) > 1
    /\ downloads[1].SiaPath = arg.rf.siaPath
    /\ downloads[1].Destination # arg.lf.path
    /\ downloads[2].SiaPath = arg.rf.siaPath
    /\ downloads[2].Destination = arg.lf.path
    /\ res.di = downloads[2]

\* C14: a wait never invokes the function it polls more than MaxAttempts
\* times nor sleeps more than MaxAttempts - 1 times, and every wait that was
\* called returns to the test, whatever the renter does.
C14_WaitsTerminate ==
    /\ [](op \in AllWaits =>
             /\ Last(log).polls <= MaxAttempts
             /\ tries <= MaxAttempts
             /\ sleeps < MaxAttempts)
    /\ (op \in AllWaits) ~> (pc[2] = "done")

\* A download wait that used up its budget: the last attempt failed too.
C14_Witness ==
    /\ Done("WaitForDownload")
    /\ Last(log).polls = MaxAttempts
    /\ sleeps = MaxAttempts - 1
    /\ res.err # Nil

\* C16 as claimed: once a lookup of WaitForUploadProgress or
\* WaitForUploadRedundancy, the initial one or one of a poll, found the file
\* untracked, the wait does not return success.
C16_UntrackedIsFatal ==
    (op \in Waits /\ pc[2] = "done" /\ Last(log).lost) => res.err # Nil

\* C16, amended: an untracked file ends the wait with an error at the initial
\* lookup.  Inside a poll it fails that attempt only: Retry sleeps and polls
\* again while the budget lasts, the wait fails if its last lookup found the
\* file untracked, and after an untracked lookup it returns success only by a
\* later poll that observed the awaited value.
C16_UntrackedFailsTheAttempt ==
    (log # <<>> /\ Last(log).fn \in Waits /\ op \in Waits) =>
        LET e == Last(log)
        IN  /\ (e.kind = "untracked" /\ e.polls = 0) =>
                  pc[2] = "done" /\ res.err # Nil
            /\ (e.kind = "untracked" /\ e.polls \in 1..(MaxAttempts - 1)) =>
                  pc[2] \in {"Sleep", "fn"} /\ tries = e.polls
            /\ (e.kind = "untracked" /\ pc[2] = "done") => res.err # Nil
            /\ (e.lost /\ pc[2] = "done" /\ res.err = Nil) =>
                  /\ e.polls > 1
                  /\ e.kind = "tracked"
                  /\ e.hit

\* A poll found the file untracked, a later poll found it again with the
\* awaited redundancy: the wait returned success.
C16_Witness ==
    /\ Done("WaitForUploadRedundancy")
    /\ Last(log).lost
    /\ Last(log).polls > 1
    /\ res.err = Nil

\* The renter's record of the download the running WaitForDownload waits
\* for is completed.
CompletedRecord ==
    /\ op = "WaitForDownload"
    /\ Matches(arg.lf, arg.rf) # {}
    /\ FirstMatch(arg.lf, arg.rf).Completed

\* C17: a poll of WaitForDownload that observes the record as completed is
\* the last one, and the call then returns exactly what the integrity check
\* of the local file gives.  When the record is completed while an attempt
\* is still to come, the call gets there, unless the record does not stay
\* completed or a request fails.
C17_CompletedEndsTheWait ==
    /\ []((op = "WaitForDownload" /\ Last(log).kind = "completed") =>
             /\ pc[2] \in {"checkIntegrity", "done"}
             /\ pc[2] = "checkIntegrity" => Last(log).checked = "no"
             /\ pc[2] = "done" =>
                   /\ Last(log).checked \in {"passed", "failed"}
                   /\ Last(log).checked = "passed" => res.err = Nil
                   /\ Last(log).checked = "failed" =>
                         res.err = New("checksums don't match"))
    /\ (CompletedRecord /\ pc[2] \in {"fn", "Sleep"})
          ~> \/ /\ Done("WaitForDownload")
                /\ Last(log).kind = "completed"
                /\ Last(log).checked # "no"
             \/ ~CompletedRecord
             \/ Last(log).kind = "failed"

\* The record was completed after the first attempts; the wait ended at the
\* poll that observed it and returned the failure of the integrity check.
C17_Witness ==
    /\ Done("WaitForDownload")
    /\ Last(log).polls > 1
    /\ Last(log).kind = "completed"
    /\ Last(log).checked = "failed"
    /\ res.err = New("checksums don't match")

QueryOps == AllWaits \cup {"DownloadInfo", "FileInfo", "Files"}

\* C18: no step of WaitForUploadProgress, WaitForUploadRedundancy,
\* WaitForDownload, DownloadInfo, FileInfo or Files changes the renter's
\* tracked files or download records; the tracked files change with the
\* upload request of Upload only, and the download records with a download
\* request of DownloadToDisk or DownloadByStream only.
C18_QueriesKeepTheRenter ==
    [][/\ (op \in QueryOps \/ op' \in QueryOps) =>
              (files' = files /\ downloads' = downloads)
       /\ files' # files =>
              (op = "idle" /\ op' = "Upload" /\ Last(log').kind = "posted")
       /\ downloads' # downloads =>
              /\ op \in {"DownloadToDisk", "DownloadByStream"}
              /\ Last(log').kind \in {"started", "fetched"}]_vars

\* WaitForDownload polled more than once and returned after the integrity
\* check, on a renter that has a tracked file and a download record.
C18_Witness ==
    /\ Done("WaitForDownload")
    /\ Last(log).polls > 1
    /\ Last(log).checked # "no"
    /\ files # <<>>
    /\ downloads # <<>>

\* C19 as claimed: the sia path Upload posts to the renter is the sia path
\* of the RemoteFile it builds, returns and looks up.
C19_PostedPathIsIdentity ==
    (op = "Upload" /\ arg.rf # NilRemoteFile) => arg.posted = arg.rf.siaPath

\* C19, amended: the sia path of the RemoteFile that Upload builds, looks up
\* and returns is the posted path without its leading "/"; a file the renter
\* tracks under that path when the lookup is made is found by it, and Upload
\* then returns the RemoteFile without an error.
C19_IdentityIsPostedName ==
    [][/\ (op' = "Upload" /\ arg'.rf # NilRemoteFile) =>
              /\ arg'.posted = <<"/">> \o arg'.rf.siaPath
              /\ pc'[2] = "done" => res'.rf = arg'.rf
       /\ (op = "Upload" /\ pc = <<"Upload", "FileInfo">> /\ pc' # pc) =>
              /\ (Tracked(Tail(arg.posted)) /\ Last(log').kind # "failed") =>
                    /\ res'.err = Nil
                    /\ res'.rf.siaPath = Tail(arg.posted)
                    /\ Last(log').kind = "tracked"
              /\ ~Tracked(Tail(arg.posted)) => res'.err # Nil]_vars

\* Upload posted "/f1" and returned the RemoteFile "f1", which the renter
\* tracks.
C19_Witness ==
    /\ Done("Upload")
    /\ res.err = Nil
    /\ arg.posted = <<"/">> \o res.rf.siaPath
    /\ Tracked(res.rf.siaPath)
    /\ ~Tracked(arg.posted)

====
